---- MODULE Spec2Model ----
(***************************************************************************)
(* Model of wrangler.py: BaseWrangler and its three derived normalizers    *)
(* CapsWrangler, TextWrangler and Wrangler.                                *)
(*                                                                         *)
(* A term is a pair <<base, casing>>: two terms with the same base are the *)
(* same word written with a different capitalization, and str.lower()      *)
(* sends every term to the "lower" casing of its base.                     *)
(***************************************************************************)
EXTENDS Integers, Sequences, FiniteSets

\* longest input sequence
MaxLen == 4

\* the terms an input sequence is drawn from: the word x in one casing and
\* the word y in two
Universe == {<<"x", "lower">>, <<"y", "lower">>, <<"y", "Title">>}
Bases == {t[1] : t \in Universe}

\* default of the threshold parameter of TextWrangler.__init__
DefaultThreshold == 94
Thresholds == {DefaultThreshold, DefaultThreshold + 1}
\* similarity scores the external scorer may return for two different words
Scores == {DefaultThreshold, DefaultThreshold + 1, 100}

Kinds == {"CapsWrangler", "TextWrangler", "Wrangler"}

VARIABLES
    kind,            \* the concrete class of the normalizer instance
    terms,           \* self._terms_
    threshold,       \* self._threshold_ (read by TextWrangler only)
    sim,             \* the scorer's score for each pair of different words
    hashOrder,       \* iteration order of set(self._terms_) in this process
    cached,          \* names of the cached_property values already stored
    substitutions,   \* the cached value of self.substitutions
    wrangled_terms,  \* the cached value of self.wrangled_terms
    ret              \* outcome of the last wrangle(term) call

vars == <<kind, terms, threshold, sim, hashOrder, cached, substitutions,
          wrangled_terms, ret>>

\* ------------------------------------------------------------- helpers
Range(s) == {s[i] : i \in DOMAIN s}

SeqsUpTo(S, n) == UNION {[1..k -> S] : k \in 0..n}

Perms(S) == {p \in [1..Cardinality(S) -> S] : Range(p) = S}

BasePairs == {{a, b} : a \in Bases, b \in Bases} \ {{a} : a \in Bases}

\* dict.get(key) is not None / dict[key] = value
Has(d, k) == k \in DOMAIN d
Put(d, k, v) == [x \in DOMAIN d \cup {k} |-> IF x = k THEN v ELSE d[x]]
EmptyDict == [x \in {} |-> x]

\* str.lower()
lower(t) == <<t[1], "lower">>

\* ------------------------------------------------------ BaseWrangler
\* Counter(self._terms_)[t]
Count(ts, t) == Cardinality({i \in DOMAIN ts : ts[i] = t})

\* keys of Counter(self._terms_), in insertion (first occurrence) order
RECURSIVE CounterKeys(_)
CounterKeys(ts) ==
    IF ts = <<>> THEN <<>>
    ELSE LET n == Len(ts)
             front == CounterKeys(SubSeq(ts, 1, n - 1))
         IN IF ts[n] \in Range(front) THEN front ELSE Append(front, ts[n])

\* set(self._terms_)
UniqueTerms(ts) == Range(ts)

\* iteration order of a set of terms built in this process
IterOrder(S, order) == SelectSeq(order, LAMBDA t : t \in S)

\* BaseWrangler.wrangled_terms, over the substitutions map subs
\* variant: the substitution is never applied
WrangledTermsNoSubstitution(ts, subs) == ts

\* variant: the else branch is missing, unchanged terms are dropped
WrangledTermsOnlyUpdated(ts, subs) ==
    LET updated == SelectSeq(ts, LAMBDA t : Has(subs, t))
    IN [i \in 1..Len(updated) |-> subs[updated[i]]]

WrangledTerms(ts, subs) ==
    [i \in 1..Len(ts) |-> IF Has(subs, ts[i]) THEN subs[ts[i]] ELSE ts[i]]

\* variant: wrangle without its assert
WrangleNoAssert(ts, subs, term) ==
    [term |-> term, raised |-> FALSE,
     value |-> IF Has(subs, term) THEN subs[term] ELSE term]

\* BaseWrangler.wrangle: the assert, then the lookup
Wrangle(ts, subs, term) ==
    IF term \notin Range(ts)
    THEN [term |-> term, raised |-> TRUE, value |-> term]
    ELSE [term |-> term, raised |-> FALSE,
          value |-> IF Has(subs, term) THEN subs[term] ELSE term]

\* ------------------------------------------------------ CapsWrangler
\* variant: count >= best_count, the last term of the highest count wins
RECURSIVE PreferredLoopLastWins(_, _, _, _, _)
PreferredLoopLastWins(ts, keys, lower_term, best_term, best_count) ==
    IF keys = <<>> THEN best_term
    ELSE LET alt_term == Head(keys)
             count == Count(ts, alt_term)
         IN IF lower_term = lower(alt_term) /\ count >= best_count
            THEN PreferredLoopLastWins(ts, Tail(keys), lower_term, alt_term, count)
            ELSE PreferredLoopLastWins(ts, Tail(keys), lower_term, best_term, best_count)

\* variant: best_term = lower_term, the lower-cased string is preferred
RECURSIVE PreferredLoopLowered(_, _, _, _, _)
PreferredLoopLowered(ts, keys, lower_term, best_term, best_count) ==
    IF keys = <<>> THEN best_term
    ELSE LET alt_term == Head(keys)
             count == Count(ts, alt_term)
         IN IF lower_term = lower(alt_term) /\ count > best_count
            THEN PreferredLoopLowered(ts, Tail(keys), lower_term, lower_term, count)
            ELSE PreferredLoopLowered(ts, Tail(keys), lower_term, best_term, best_count)

\* the loop of _get_preferred_capitalization_ over self._counter_.items()
RECURSIVE PreferredLoop(_, _, _, _, _)
PreferredLoop(ts, keys, lower_term, best_term, best_count) ==
    IF keys = <<>> THEN best_term
    ELSE LET alt_term == Head(keys)
             count == Count(ts, alt_term)
         IN IF lower_term = lower(alt_term) /\ count > best_count
            THEN PreferredLoop(ts, Tail(keys), lower_term, alt_term, count)
            ELSE PreferredLoop(ts, Tail(keys), lower_term, best_term, best_count)

\* best_term = None is written <<>>; the loop always replaces it, because
\* term itself is a key of the counter with a count above 0
GetPreferredCapitalization(ts, term) ==
    PreferredLoop(ts, CounterKeys(ts), lower(term), <<>>, 0)

CapsSubstitutions(ts) ==
    [term \in {t \in UniqueTerms(ts) : GetPreferredCapitalization(ts, t) # t}
        |-> GetPreferredCapitalization(ts, term)]

\* ------------------------------------------------------ TextWrangler
\* the scorer behind extractBests: it lower-cases both strings first, so two
\* casings of one word score 100; two different words score sim
Score(a, b) == IF lower(a) = lower(b) THEN 100 ELSE sim[{a[1], b[1]}]

\* one step of the selection of the limit best: item goes behind every kept
\* item that scores at least as much, and the list is cut to limit
InsertRanked(result, item, limit) ==
    LET k == Cardinality({i \in DOMAIN result : result[i].score >= item.score})
        all == SubSeq(result, 1, k) \o <<item>> \o SubSeq(result, k + 1, Len(result))
    IN SubSeq(all, 1, IF Len(all) < limit THEN Len(all) ELSE limit)

RECURSIVE NLargest(_, _, _)
NLargest(limit, items, result) ==
    IF items = <<>> THEN result
    ELSE NLargest(limit, Tail(items), InsertRanked(result, Head(items), limit))

\* extractBests(query, choices, limit=limit), choices in iteration order
ExtractBests(query, choices, limit) ==
    NLargest(limit,
             [i \in 1..Len(choices) |->
                 [term |-> choices[i], score |-> Score(query, choices[i])]],
             <<>>)

\* variant: a score equal to the threshold is accepted
TextSubstitutionsAtThreshold(ts, thr, order) ==
    LET choices == IterOrder(UniqueTerms(ts), order)
        closest_term(t) == LET closest_terms == ExtractBests(t, choices, 2)
                           IN closest_terms[Len(closest_terms)]
        recorded(t) == /\ Len(choices) > 1
                       /\ closest_term(t).score >= thr
                       /\ Count(ts, closest_term(t).term) >= Count(ts, t)
    IN [term \in {t \in UniqueTerms(ts) : recorded(t)} |-> closest_term(term).term]

\* variant: the comparison of the two counts is missing
TextSubstitutionsAnyCount(ts, thr, order) ==
    LET choices == IterOrder(UniqueTerms(ts), order)
        closest_term(t) == LET closest_terms == ExtractBests(t, choices, 2)
                           IN closest_terms[Len(closest_terms)]
        recorded(t) == /\ Len(choices) > 1
                       /\ closest_term(t).score > thr
    IN [term \in {t \in UniqueTerms(ts) : recorded(t)} |-> closest_term(term).term]

\* TextWrangler.substitutions
TextSubstitutions(ts, thr, order) ==
    LET choices == IterOrder(UniqueTerms(ts), order)
        closest_term(t) == LET closest_terms == ExtractBests(t, choices, 2)
                           IN closest_terms[Len(closest_terms)]
        recorded(t) == /\ Len(choices) > 1
                       /\ closest_term(t).score > thr
                       /\ Count(ts, closest_term(t).term) >= Count(ts, t)
    IN [term \in {t \in UniqueTerms(ts) : recorded(t)} |-> closest_term(term).term]

\* ---------------------------------------------------------- Wrangler
\* first loop of Wrangler.substitutions, over the items of the caps map
RECURSIVE ChainLoop(_, _, _)
ChainLoop(keys, subs, text) ==
    IF keys = <<>> THEN subs
    ELSE LET term == Head(keys)
             caps_sub == subs[term]
         IN IF Has(text, caps_sub)
            THEN ChainLoop(Tail(keys), Put(subs, term, text[caps_sub]), text)
            ELSE ChainLoop(Tail(keys), subs, text)

\* second loop of Wrangler.substitutions, over the items of the text map
RECURSIVE MergeLoop(_, _, _)
MergeLoop(keys, subs, text) ==
    IF keys = <<>> THEN subs
    ELSE MergeLoop(Tail(keys), Put(subs, Head(keys), text[Head(keys)]), text)

\* Wrangler.substitutions
WranglerSubstitutions(ts, order) ==
    LET caps == CapsSubstitutions(ts)
        text_terms == WrangledTerms(ts, caps)
        text == TextSubstitutions(text_terms, DefaultThreshold, order)
        chained == ChainLoop(IterOrder(DOMAIN caps, order), caps, text)
    IN MergeLoop(IterOrder(DOMAIN text, order), chained, text)

\* self.substitutions of the instance's class
Substitutions(k, ts, thr, order) ==
    CASE k = "CapsWrangler" -> CapsSubstitutions(ts)
      [] k = "TextWrangler" -> TextSubstitutions(ts, thr, order)
      [] k = "Wrangler" -> WranglerSubstitutions(ts, order)

\* ------------------------------------------------------- state machine
Init ==
    /\ kind \in Kinds
    /\ terms \in SeqsUpTo(Universe, MaxLen)
    /\ threshold \in IF kind = "TextWrangler" THEN Thresholds ELSE {DefaultThreshold}
    /\ sim \in [BasePairs -> Scores]
    /\ hashOrder \in Perms(Range(terms))
    /\ cached = {}
    /\ substitutions = EmptyDict
    /\ wrangled_terms = <<>>
    /\ ret = <<>>

\* the value self.substitutions evaluates to: the cache, or the computation
CurrentSubstitutions ==
    IF "substitutions" \in cached THEN substitutions
    ELSE Substitutions(kind, terms, threshold, hashOrder)

\* first access of the cached property substitutions
GetSubstitutions ==
    /\ "substitutions" \notin cached
    /\ substitutions' = CurrentSubstitutions
    /\ cached' = cached \cup {"substitutions"}
    /\ UNCHANGED <<kind, terms, threshold, sim, hashOrder, wrangled_terms, ret>>

\* first access of the cached property wrangled_terms
GetWrangledTerms ==
    /\ "wrangled_terms" \notin cached
    /\ substitutions' = CurrentSubstitutions
    /\ wrangled_terms' = WrangledTerms(terms, CurrentSubstitutions)
    /\ cached' = cached \cup {"substitutions", "wrangled_terms"}
    /\ UNCHANGED <<kind, terms, threshold, sim, hashOrder, ret>>

\* a call of wrangle(term)
CallWrangle ==
    \E term \in Universe :
        LET r == Wrangle(terms, CurrentSubstitutions, term)
        IN /\ ret' = <<r>>
           /\ IF r.raised
              THEN UNCHANGED <<cached, substitutions>>
              ELSE /\ substitutions' = CurrentSubstitutions
                   /\ cached' = cached \cup {"substitutions"}
           /\ UNCHANGED <<kind, terms, threshold, sim, hashOrder, wrangled_terms>>

Next == GetSubstitutions \/ GetWrangledTerms \/ CallWrangle

Spec == Init /\ [][Next]_vars

\* ---------------------------------------------------------- properties
Computed == "substitutions" \in cached
Wrangled == "wrangled_terms" \in cached

\* index of the first occurrence of t in ts
FirstIndex(ts, t) == CHOOSE i \in DOMAIN ts : ts[i] = t /\ \A j \in 1..(i - 1) : ts[j] # t

\* position of t in the iteration order
Pos(order, t) == CHOOSE i \in DOMAIN order : order[i] = t

\* dict.get(t, t)
Lookup(subs, t) == IF Has(subs, t) THEN subs[t] ELSE t

\* the two normalizers the Wrangler builds, rebuilt from the raw terms
CapsPass == CapsSubstitutions(terms)
CapsWrangledTerms == WrangledTerms(terms, CapsPass)
TextPass == TextSubstitutions(CapsWrangledTerms, DefaultThreshold, hashOrder)

\* C2: in the CapsWrangler every distinct term t whose case group's most
\* frequent member p (the first-encountered one among those with the highest
\* count) differs from t is mapped to p, and a term that is p, or is alone in
\* its group, has no entry.
C2_CapsPrefersMostFrequent ==
    (kind = "CapsWrangler" /\ Computed) =>
        \A t \in UniqueTerms(terms) :
            LET G == {g \in UniqueTerms(terms) : lower(g) = lower(t)}
                p == CHOOSE q \in G : \A g \in G \ {q} :
                        \/ Count(terms, g) < Count(terms, q)
                        \/ /\ Count(terms, g) = Count(terms, q)
                           /\ FirstIndex(terms, q) < FirstIndex(terms, g)
            IN /\ p # t => (Has(substitutions, t) /\ substitutions[t] = p)
               /\ p = t => ~Has(substitutions, t)
               /\ Cardinality(G) = 1 => ~Has(substitutions, t)

\* a case group with two casings tied at the highest count, one of them mapped
C2_Witness ==
    /\ kind = "CapsWrangler" /\ Computed
    /\ \E t \in DOMAIN substitutions :
          /\ Count(terms, t) = Count(terms, substitutions[t])
          /\ FirstIndex(terms, substitutions[t]) < FirstIndex(terms, t)

\* c is ranked before u among the candidates for t: a higher score, or the
\* same score and earlier in the iteration order
RankedBefore(t, c, u) ==
    \/ Score(t, c) > Score(t, u)
    \/ Score(t, c) = Score(t, u) /\ Pos(hashOrder, c) < Pos(hashOrder, u)

SecondRanked(t, u) ==
    Cardinality({c \in UniqueTerms(terms) : RankedBefore(t, c, u)}) = 1

\* C3: in the TextWrangler t -> u is an entry exactly when there are at least
\* two distinct terms, u is the second-ranked candidate for t, its score is
\* strictly above the threshold and u occurs at least as often as t.
C3_TextRecordsSecondRanked ==
    (kind = "TextWrangler" /\ Computed) =>
        \A t \in UniqueTerms(terms) : \A u \in Universe :
            (Has(substitutions, t) /\ substitutions[t] = u)
            <=> /\ Cardinality(UniqueTerms(terms)) >= 2
                /\ u \in UniqueTerms(terms)
                /\ SecondRanked(t, u)
                /\ Score(t, u) > threshold
                /\ Count(terms, u) >= Count(terms, t)

\* one term is mapped to another one, and one term whose second-ranked
\* candidate scores exactly the threshold is left without an entry
C3_Witness ==
    /\ kind = "TextWrangler" /\ Computed
    /\ \E t \in DOMAIN substitutions : substitutions[t] # t
    /\ \E t \in UniqueTerms(terms) \ DOMAIN substitutions :
          \E u \in UniqueTerms(terms) :
              SecondRanked(t, u) /\ Score(t, u) = threshold

\* C5 as amended: an entry t -> u of the CapsWrangler or the TextWrangler has
\* count(u) >= count(t) in the input; for the Wrangler the counts are those of
\* the capitalization-normalized sequence its text pass was built over, and t
\* is counted as its capitalization-normalized form.
C5_FrequencyDominanceAmended ==
    Computed =>
        \A t \in DOMAIN substitutions :
            IF kind = "Wrangler"
            THEN Count(CapsWrangledTerms, substitutions[t])
                     >= Count(CapsWrangledTerms, Lookup(CapsPass, t))
            ELSE Count(terms, substitutions[t]) >= Count(terms, t)

\* the Wrangler maps a raw term to one that is rarer in the raw input
C5_Witness ==
    /\ kind = "Wrangler" /\ Computed
    /\ \E t \in DOMAIN substitutions :
          Count(terms, substitutions[t]) < Count(terms, t)

\* C5 as claimed: every entry t -> u of every normalizer has count(u) >=
\* count(t) in that normalizer's own input sequence.
C5_FrequencyDominance ==
    Computed =>
        \A t \in DOMAIN substitutions :
            Count(terms, substitutions[t]) >= Count(terms, t)

\* C6: every key and every value of a substitutions map is a distinct term of
\* the sequence the normalizer was constructed over.
C6_DomainClosure ==
    Computed =>
        /\ DOMAIN substitutions \subseteq UniqueTerms(terms)
        /\ \A t \in DOMAIN substitutions : substitutions[t] \in UniqueTerms(terms)

\* a Wrangler entry that went through both passes
C6_Witness ==
    /\ kind = "Wrangler" /\ Computed
    /\ \E t \in DOMAIN substitutions :
          /\ Has(CapsPass, t)
          /\ substitutions[t] # CapsPass[t]

\* C7: wrangle of a term outside the input raises and returns nothing; of a
\* term of the input it returns substitutions[term] if present, else term.
C7_WrangleChecksDomain ==
    ret # <<>> =>
        LET r == ret[1]
        IN /\ r.term \notin Range(terms) => r.raised
           /\ r.term \in Range(terms) =>
                 /\ ~r.raised
                 /\ Computed
                 /\ r.value = Lookup(substitutions, r.term)

\* wrangle was called on a non-empty input with a term outside it
C7_Witness ==
    /\ ret # <<>>
    /\ terms # <<>>
    /\ ret[1].term \notin Range(terms)
    /\ ret[1].raised

\* C8: a CapsWrangler built over the wrangled_terms of a CapsWrangler has an
\* empty substitutions map.
C8_CapsIdempotent ==
    (kind = "CapsWrangler" /\ Wrangled) =>
        CapsSubstitutions(wrangled_terms) = EmptyDict

\* the first pass replaced a casing that tied with the preferred one
C8_Witness ==
    /\ kind = "CapsWrangler" /\ Wrangled
    /\ \E t \in DOMAIN substitutions :
          Count(terms, t) = Count(terms, substitutions[t])
    /\ wrangled_terms # terms

\* C9: the access that computes wrangled_terms leaves the input unchanged and
\* yields a sequence of the input's length whose i-th element is
\* substitutions[input[i]] when input[i] is a key and input[i] otherwise.
C9_WrangledTermsElementwise ==
    [][("wrangled_terms" \in cached' /\ ~Wrangled) =>
          /\ terms' = terms
          /\ Len(wrangled_terms') = Len(terms)
          /\ \A i \in 1..Len(terms) :
                wrangled_terms'[i] = Lookup(substitutions', terms[i])]_vars

\* wrangled_terms holds a replaced element and an element kept as it was
C9_Witness ==
    /\ Wrangled
    /\ \E i \in DOMAIN terms : wrangled_terms[i] # terms[i]
    /\ \E i \in DOMAIN terms : ~Has(substitutions, terms[i])

\* C1: for every raw term t the Wrangler's lookup equals the text pass applied
\* to the caps pass, and t is a key of the Wrangler's map exactly when that
\* result differs from t.
C1_CompositeIsTwoPasses ==
    (kind = "Wrangler" /\ Computed) =>
        \A t \in Range(terms) :
            LET two == Wrangle(CapsWrangledTerms, TextPass,
                               Wrangle(terms, CapsPass, t).value).value
            IN /\ Lookup(substitutions, t) = two
               /\ Has(substitutions, t) <=> two # t

\* C4: no key of a substitutions map is mapped to itself.
C4_NoSelfMapping ==
    Computed => \A t \in DOMAIN substitutions : substitutions[t] # t

\* C10: no value of the Wrangler's substitutions map is a key of it.
C10_CompositeStable ==
    (kind = "Wrangler" /\ Computed) =>
        \A t \in DOMAIN substitutions : ~Has(substitutions, substitutions[t])

====
